---- MODULE Spec2Model ----
(***************************************************************************)
(* DPLL solver of nicorosinus/cnf_sat_solver: literals, clauses, formulas  *)
(* (src/sat_solver/{literals,clauses,formula}.py) as operators, and        *)
(* DPLLSolver.solve/dpll/simplify/choose_variable                          *)
(* (src/sat_solver/solver.py) as a state machine with an explicit call     *)
(* stack and a heap of dict objects.  Every iteration over a Python set is *)
(* a nondeterministic choice of the next element.                          *)
(***************************************************************************)
EXTENDS Naturals, FiniteSets, Sequences

VARIABLES
    pc,        \* "build" | "solve" | "run" | "done" | "raised" | "reduce0" | "reduce1" | "reduce2"
    input,     \* the clauses handed to Formula.of (a set of literal sets)
    F,         \* the formula handed to DPLLSolver.solve
    heap,      \* the dict objects: heap[r] is the mapping stored in dict r
    stack,     \* the active dpll calls, the root first
    ret,       \* value returned by the dpll call that returned last
    result,    \* value returned by solve
    error,     \* "none" | "AssertionError" | "StopIteration"
    redA,      \* Formula.reduce check: the partial assignment
    red1,      \* Formula.reduce check: <<F.reduce(A)>> once computed
    red2       \* Formula.reduce check: <<F.reduce(A)[0].reduce(A)>> once computed

vars == <<pc, input, F, heap, stack, ret, result, error, redA, red1, red2>>

(***************************************************************************)
(* Bounds of the model.                                                    *)
(***************************************************************************)
NumVars == 2          \* number of variable names
MaxLits == 2          \* literals per input clause
MaxClauses == 4       \* clauses handed to Formula.of (Spec)
FairMaxClauses == 3   \* clauses handed to Formula.of (FairSpec)
OfMaxClauses == 3     \* clauses handed to Formula.of (SpecOf)
RedMaxClauses == 2    \* clauses of the formulas Formula.reduce is applied to twice

Names == 1..NumVars

(***************************************************************************)
(* literals.py                                                             *)
(***************************************************************************)
Literal(n, neg) == [name |-> n, negated |-> neg]

Literals == {Literal(n, neg) : n \in Names, neg \in BOOLEAN}

\* Optional[bool]: "True" | "False" | "None"
OptBool(b) == IF b THEN "True" ELSE "False"

LitEval(lit, a) ==
    IF lit.name \notin DOMAIN a THEN "None"
    ELSE IF lit.negated THEN OptBool(~a[lit.name]) ELSE OptBool(a[lit.name])

(***************************************************************************)
(* Dict operations.                                                        *)
(***************************************************************************)
EmptyDict == [n \in {} |-> TRUE]

\* d[k] = v
DictSet(d, k, v) == [n \in (DOMAIN d) \cup {k} |-> IF n = k THEN v ELSE d[n]]

Assignments == UNION {[S -> BOOLEAN] : S \in SUBSET Names}

(***************************************************************************)
(* clauses.py                                                              *)
(***************************************************************************)
ClauseOf(lits) == {l \in Literals : l \in lits}

IsEmpty(cl) == Cardinality(cl) = 0

IsUnit(cl, a) ==
    /\ \A lit \in cl : LitEval(lit, a) # "True"
    /\ Cardinality({lit \in cl : LitEval(lit, a) = "None"}) = 1

ClauseEvaluate(cl, a) ==
    IF \E lit \in cl : LitEval(lit, a) = "True" THEN "True"
    ELSE IF \E lit \in cl : LitEval(lit, a) = "None" THEN "None"
    ELSE "False"

ClauseReduce_decided(cl, a) ==
    IF \E lit \in cl : LitEval(lit, a) # "None"
    THEN [satisfied |-> TRUE, clause |-> {}]
    ELSE [satisfied |-> FALSE, clause |-> {lit \in cl : LitEval(lit, a) = "None"}]

ClauseReduce_keepfalse(cl, a) ==
    IF \E lit \in cl : LitEval(lit, a) = "True"
    THEN [satisfied |-> TRUE, clause |-> {}]
    ELSE [satisfied |-> FALSE, clause |-> cl]

\* Optional[Clause]: satisfied = TRUE stands for None (the clause is dropped)
ClauseReduce(cl, a) ==
    IF \E lit \in cl : LitEval(lit, a) = "True"
    THEN [satisfied |-> TRUE, clause |-> {}]
    ELSE [satisfied |-> FALSE, clause |-> {lit \in cl : LitEval(lit, a) = "None"}]

(***************************************************************************)
(* formula.py                                                              *)
(***************************************************************************)
IsTautology(cl) == \E n \in Names : Literal(n, FALSE) \in cl /\ Literal(n, TRUE) \in cl

FormulaOf_nofilter(clauses) == clauses

FormulaOf(clauses) == {cl \in clauses : ~IsTautology(cl)}

Variables(f) == {lit.name : lit \in UNION f}

FormulaEvaluate(f, a) ==
    IF \E cl \in f : ClauseEvaluate(cl, a) = "False" THEN "False"
    ELSE IF \E cl \in f : ClauseEvaluate(cl, a) = "None" THEN "None"
    ELSE "True"

UnitClauses(f, a) == {cl \in f : IsUnit(cl, a)}

SignByVar(f, a, n) ==
    {lit.negated : lit \in {l \in UNION {cl \in f : ClauseEvaluate(cl, a) # "True"} :
                                l.name = n /\ LitEval(l, a) = "None"}}

PureLiterals_flipped(f, a) ==
    {lit \in Literals : SignByVar(f, a, lit.name) = {~lit.negated}}

PureLiterals(f, a) ==
    {lit \in Literals : SignByVar(f, a, lit.name) = {lit.negated}}

FormulaReduce_noflag(f, a) ==
    [formula |-> {ClauseReduce(cl, a).clause : cl \in {c \in f : ~ClauseReduce(c, a).satisfied}},
     contradict |-> FALSE]

FormulaReduce_keep(f, a) ==
    LET reds == {ClauseReduce(cl, a).clause : cl \in {c \in f : ~ClauseReduce(c, a).satisfied}}
    IN  IF \E red \in reds : IsEmpty(red)
        THEN [formula |-> f, contradict |-> TRUE]
        ELSE [formula |-> reds, contradict |-> FALSE]

FormulaReduce(f, a) ==
    LET reds == {ClauseReduce(cl, a).clause : cl \in {c \in f : ~ClauseReduce(c, a).satisfied}}
    IN  IF \E red \in reds : IsEmpty(red)
        THEN [formula |-> {}, contradict |-> TRUE]
        ELSE [formula |-> reds, contradict |-> FALSE]

(***************************************************************************)
(* solver.py: helpers                                                      *)
(***************************************************************************)
\* Optional[Dict[str, bool]]
None == [none |-> TRUE, dict |-> EmptyDict]

Some(d) == [none |-> FALSE, dict |-> d]

\* dict(d): a new dict object holding the mapping of dict r
DictCopy(h, r) == [heap |-> Append(h, h[r]), ref |-> Len(h) + 1]

\* current_assignment = dict(assignment)
SimplifyCopy(h, r) == DictCopy(h, r)

NewAssign_alias(h, r) == [heap |-> h, ref |-> r]

\* new_assign = dict(assignment)
NewAssign(h, r) == DictCopy(h, r)

\* {k: v}
Singleton(k, v) == DictSet(EmptyDict, k, v)

\* not target.negated
UnitValue(target) == ~target.negated

HasPures_always(pures) == TRUE

\* if pures:
HasPures(pures) == pures # {}

\* {lit.name: not lit.negated for lit in pures}
Partial(pures) ==
    [n \in {lit.name : lit \in pures} |-> ~(CHOOSE lit \in pures : lit.name = n).negated]

\* for lit in pures: d[lit.name] = not lit.negated
DictUpdate(d, partial) ==
    [n \in (DOMAIN d) \cup (DOMAIN partial) |-> IF n \in DOMAIN partial THEN partial[n] ELSE d[n]]

\* total = dict(assignment), completed with False over formula.variables()
Total(a, f) ==
    [n \in (DOMAIN a) \cup Variables(f) |-> IF n \in DOMAIN a THEN a[n] ELSE FALSE]

Choices_onlyTrue == <<TRUE>>

\* for choice in (True, False)
Choices == <<TRUE, FALSE>>

\* counts[n] of choose_variable (0: n is not a key of counts): the undecided
\* literals named n in the clauses that are not true, counted per clause
Count(f, a, n) ==
    Cardinality({p \in {cl \in f : ClauseEvaluate(cl, a) # "True"} \X BOOLEAN :
                   Literal(n, p[2]) \in p[1] /\ LitEval(Literal(n, p[2]), a) = "None"})

Counted(f, a) == {n \in Names : Count(f, a, n) > 0}

\* the keys max(counts.items(), key=...) can return: a first maximum in
\* insertion order, which set iteration can make any key of maximal count
MaxCounted(f, a) ==
    {n \in Counted(f, a) : \A m \in Counted(f, a) : Count(f, a, m) <= Count(f, a, n)}

\* formula.variables() - set(assignment.keys())
Remaining(f, a) == Variables(f) \ DOMAIN a

NewFrame(f, r) ==
    [pc |-> "simplify", formula |-> f, assignment |-> r,
     current_formula |-> f, current_assignment |-> 0,
     changed |-> FALSE, units |-> {}, var |-> 0, choices |-> <<>>, new_assign |-> 0]

Top == stack[Len(stack)]

SetTop(fr) == [stack EXCEPT ![Len(stack)] = fr]

Running(label) == pc = "run" /\ Len(stack) > 0 /\ Top.pc = label

\* the top dpll call returns value; h is the heap it leaves
DpllReturn(h, value) ==
    /\ heap' = h
    /\ ret' = value
    /\ stack' = SubSeq(stack, 1, Len(stack) - 1)
    /\ IF Len(stack) = 1
       THEN pc' = "done" /\ result' = value
       ELSE pc' = pc /\ result' = result
    /\ UNCHANGED <<input, F, error, redA, red1, red2>>

\* an exception leaves solve
Raise(e) ==
    /\ pc' = "raised"
    /\ error' = e
    /\ UNCHANGED <<input, F, heap, stack, ret, result, redA, red1, red2>>

\* the top dpll call goes on with frame fr and heap h
Continue(h, fr) ==
    /\ heap' = h
    /\ stack' = SetTop(fr)
    /\ UNCHANGED <<pc, input, F, ret, result, error, redA, red1, red2>>

(***************************************************************************)
(* Inputs                                                                  *)
(***************************************************************************)
RECURSIVE SetsUpTo(_, _)
\* the subsets of S of at most k elements
SetsUpTo(S, k) ==
    IF k = 0 THEN {{}}
    ELSE LET prev == SetsUpTo(S, k - 1)
         IN  prev \cup {p \cup {x} : p \in prev, x \in S}

InputClauses == SetsUpTo(Literals, MaxLits)

\* the input clauses that hold no literal together with its negation
PlainClauses == {cl \in InputClauses : ~IsTautology(cl)}

ReduceInputs == SetsUpTo(InputClauses, RedMaxClauses)

(***************************************************************************)
(* Formula.of and DPLLSolver.solve                                         *)
(***************************************************************************)
\* the clauses of S have been read and are about to be handed to Formula.of
InitWith(S) ==
    /\ pc = "build"
    /\ input \in S
    /\ F = {}
    /\ heap = <<>>
    /\ stack = <<>>
    /\ ret = None
    /\ result = None
    /\ error = "none"
    /\ redA = EmptyDict
    /\ red1 = <<>>
    /\ red2 = <<>>

\* Formula.of drops the other input clauses, so these inputs give every
\* formula that solve can be handed
Init == InitWith(SetsUpTo(PlainClauses, MaxClauses))

\* io.py hands Clause.of's clauses to Formula.of
Build ==
    /\ pc = "build"
    /\ F' = FormulaOf({ClauseOf(lits) : lits \in input})
    /\ pc' = "solve"
    /\ UNCHANGED <<input, heap, stack, ret, result, error, redA, red1, red2>>

\* solve: assignment = {}; self.dpll(formula, assignment)
Solve ==
    /\ pc = "solve"
    /\ heap' = <<EmptyDict>>
    /\ stack' = <<NewFrame(F, 1)>>
    /\ pc' = "run"
    /\ UNCHANGED <<input, F, ret, result, error, redA, red1, red2>>

(***************************************************************************)
(* DPLLSolver.simplify                                                     *)
(***************************************************************************)
\* changed = True; current_formula = formula; current_assignment = dict(assignment)
SimplifyBegin ==
    /\ Running("simplify")
    /\ LET c == SimplifyCopy(heap, Top.assignment)
       IN  Continue(c.heap, [Top EXCEPT !.current_formula = Top.formula,
                                        !.current_assignment = c.ref,
                                        !.changed = TRUE,
                                        !.pc = "outer"])

\* while changed: changed = False; on exit simplify returns ok = True
OuterLoop ==
    /\ Running("outer")
    /\ IF Top.changed
       THEN Continue(heap, [Top EXCEPT !.changed = FALSE, !.pc = "units"])
       ELSE Continue(heap, [Top EXCEPT !.pc = "evaluate"])

\* units = current_formula.unit_clauses(current_assignment); if not units: break
UnitScan ==
    /\ Running("units")
    /\ LET units == UnitClauses(Top.current_formula, heap[Top.current_assignment])
       IN  IF units = {}
           THEN Continue(heap, [Top EXCEPT !.pc = "pure"])
           ELSE Continue(heap, [Top EXCEPT !.units = units, !.pc = "foreach"])

\* one iteration of: for cl in units
Propagate ==
    /\ Running("foreach")
    /\ \E cl \in Top.units :
         LET r == Top.current_assignment
             undecided == {lit \in cl : LitEval(lit, heap[r]) = "None"}
         IN  IF undecided = {}
             THEN Raise("AssertionError")
             ELSE \E target \in undecided :
                    LET h == [heap EXCEPT ![r] = DictSet(@, target.name, UnitValue(target))]
                        red == FormulaReduce(Top.current_formula,
                                             Singleton(target.name, UnitValue(target)))
                        rest == Top.units \ {cl}
                    IN  IF red.contradict
                        THEN DpllReturn(h, None)
                        ELSE Continue(h, [Top EXCEPT !.current_formula = red.formula,
                                                     !.changed = TRUE,
                                                     !.units = rest,
                                                     !.pc = IF rest = {} THEN "units"
                                                                         ELSE "foreach"])

\* pure literal elimination
PureStep ==
    /\ Running("pure")
    /\ LET r == Top.current_assignment
           pures == PureLiterals(Top.current_formula, heap[r])
           partial == Partial(pures)
           h == [heap EXCEPT ![r] = DictUpdate(@, partial)]
           red == FormulaReduce(Top.current_formula, partial)
       IN  IF HasPures(pures)
           THEN IF red.contradict
                THEN DpllReturn(h, None)
                ELSE Continue(h, [Top EXCEPT !.current_formula = red.formula,
                                             !.changed = TRUE,
                                             !.pc = "outer"])
           ELSE Continue(heap, [Top EXCEPT !.pc = "outer"])

(***************************************************************************)
(* DPLLSolver.dpll after simplify; from here dpll's names formula and      *)
(* assignment are bound to simplify's current_formula, current_assignment. *)
(***************************************************************************)
\* val = formula.evaluate(assignment)
Evaluate ==
    /\ Running("evaluate")
    /\ LET a == heap[Top.current_assignment]
           val == FormulaEvaluate(Top.current_formula, a)
           total == Total(a, Top.current_formula)
       IN  IF val = "True"
           THEN DpllReturn(Append(heap, total), Some(total))
           ELSE IF val = "False"
                THEN DpllReturn(heap, None)
                ELSE Continue(heap, [Top EXCEPT !.pc = "choose"])

\* var = self.choose_variable(formula, assignment)
ChooseVariable ==
    /\ Running("choose")
    /\ LET f == Top.current_formula
           a == heap[Top.current_assignment]
       IN  IF Counted(f, a) = {}
           THEN IF Remaining(f, a) = {}
                THEN Raise("StopIteration")
                ELSE \E v \in Remaining(f, a) :
                       Continue(heap, [Top EXCEPT !.var = v, !.choices = Choices,
                                                  !.pc = "branch"])
           ELSE \E v \in MaxCounted(f, a) :
                  Continue(heap, [Top EXCEPT !.var = v, !.choices = Choices,
                                             !.pc = "branch"])

\* one iteration of: for choice in (True, False); return None after the last
Branch ==
    /\ Running("branch")
    /\ IF Top.choices = <<>>
       THEN DpllReturn(heap, None)
       ELSE LET choice == Head(Top.choices)
                n == NewAssign(heap, Top.current_assignment)
                h == [n.heap EXCEPT ![n.ref] = DictSet(@, Top.var, choice)]
                red == FormulaReduce(Top.current_formula, Singleton(Top.var, choice))
                fr == [Top EXCEPT !.choices = Tail(Top.choices), !.new_assign = n.ref]
            IN  IF red.contradict
                THEN Continue(h, fr)
                ELSE /\ heap' = h
                     /\ stack' = Append(SetTop([fr EXCEPT !.pc = "await"]),
                                        NewFrame(red.formula, n.ref))
                     /\ UNCHANGED <<pc, input, F, ret, result, error, redA, red1, red2>>

\* result = self.dpll(reduced, new_assign) has returned
Resume ==
    /\ Running("await")
    /\ IF ~ret.none
       THEN DpllReturn(heap, ret)
       ELSE Continue(heap, [Top EXCEPT !.pc = "branch"])

Next ==
    \/ Build
    \/ Solve
    \/ SimplifyBegin
    \/ OuterLoop
    \/ UnitScan
    \/ Propagate
    \/ PureStep
    \/ Evaluate
    \/ ChooseVariable
    \/ Branch
    \/ Resume

Spec == Init /\ [][Next]_vars

InitFair == InitWith(SetsUpTo(PlainClauses, FairMaxClauses))

\* solve runs to its end: no step is delayed forever
FairSpec == InitFair /\ [][Next]_vars /\ WF_vars(Next)

\* any clauses, tautological ones too, are handed to Formula.of
InitOf == InitWith(SetsUpTo(InputClauses, OfMaxClauses))

SpecOf == InitOf /\ [][Next]_vars

(***************************************************************************)
(* Formula.reduce applied twice                                            *)
(***************************************************************************)
InitReduce ==
    /\ pc = "reduce0"
    /\ input = {}
    /\ F \in ReduceInputs
    /\ heap = <<>>
    /\ stack = <<>>
    /\ ret = None
    /\ result = None
    /\ error = "none"
    /\ redA \in Assignments
    /\ red1 = <<>>
    /\ red2 = <<>>

\* F.reduce(A)
ReduceOnce ==
    /\ pc = "reduce0"
    /\ red1' = <<FormulaReduce(F, redA)>>
    /\ pc' = "reduce1"
    /\ UNCHANGED <<input, F, heap, stack, ret, result, error, redA, red2>>

\* F.reduce(A)[0].reduce(A)
ReduceTwice ==
    /\ pc = "reduce1"
    /\ red2' = <<FormulaReduce(red1[1].formula, redA)>>
    /\ pc' = "reduce2"
    /\ UNCHANGED <<input, F, heap, stack, ret, result, error, redA, red1>>

NextReduce ==
    \/ ReduceOnce
    \/ ReduceTwice

SpecReduce == InitReduce /\ [][NextReduce]_vars

(***************************************************************************)
(* Properties                                                              *)
(***************************************************************************)
Returned == pc = "done" /\ ~result.none

Unsat == pc = "done" /\ result.none

\* C1 (soundness): an assignment returned by solve makes the formula handed
\* to solve evaluate to True: every clause has a literal true under it.
Soundness ==
    Returned =>
        /\ FormulaEvaluate(F, result.dict) = "True"
        /\ \A cl \in F : \E lit \in cl :
              /\ lit.name \in DOMAIN result.dict
              /\ result.dict[lit.name] = ~lit.negated

\* solve returned an assignment found by branching: three two-literal clauses
\* leave no unit clause and no pure literal
SoundnessWitness ==
    /\ Returned
    /\ Cardinality(F) = 3
    /\ \A cl \in F : Cardinality(cl) = 2

\* C2 (totality): an assignment returned by solve has every variable of the
\* formula handed to solve as a key.
Totality == Returned => Variables(F) \subseteq DOMAIN result.dict

\* C3 (completeness): when solve returns None, no total assignment over the
\* variables of the formula makes it evaluate to True.
Completeness ==
    Unsat => \A a \in [Variables(F) -> BOOLEAN] : FormulaEvaluate(F, a) # "True"

\* solve returned None after both branches failed: four two-literal clauses
\* leave no unit clause and no pure literal
CompletenessWitness ==
    /\ Unsat
    /\ Cardinality(F) = 4
    /\ \A cl \in F : Cardinality(cl) = 2

\* C4 (termination): solve returns, with an assignment or None, and no
\* exception leaves it.
Termination == <>(pc = "done" /\ error = "none" /\ stack = <<>>)

\* solve has returned after a recursive dpll call (the root's two dicts, the
\* branch's new_assign and the child's copy exist)
TerminationWitness == pc = "done" /\ Len(heap) >= 4

\* C5 as stated: reducing the reduced formula again under the same assignment
\* returns the same formula and the same contradiction flag, also after a
\* contradiction.
IdempotentReduction == pc = "reduce2" => red2[1] = red1[1]

\* C5 as amended: the second reduce returns the same formula; the flag is the
\* same unless the first reduce reported a contradiction, and then the first
\* formula is empty and the second reduce reports no contradiction.
IdempotentReductionAmended ==
    pc = "reduce2" =>
        /\ red2[1].formula = red1[1].formula
        /\ ~red1[1].contradict => red2[1] = red1[1]
        /\ red1[1].contradict => red1[1].formula = {} /\ ~red2[1].contradict

\* both reduces done, the first dropped a satisfied clause and removed a
\* false literal without a contradiction
IdempotentReductionWitness ==
    /\ pc = "reduce2"
    /\ ~red1[1].contradict
    /\ red1[1].formula # {}
    /\ \E cl \in F : ClauseReduce(cl, redA).satisfied
    /\ \E cl \in F : ~ClauseReduce(cl, redA).satisfied /\ ClauseReduce(cl, redA).clause # cl

AllFormulas ==
    {F} \cup {stack[i].formula : i \in 1..Len(stack)}
        \cup {stack[i].current_formula : i \in 1..Len(stack)}

\* C6 (tautology filtering): the formula built by Formula.of and every
\* formula the solver works on hold no clause with a literal and its negation.
TautologyFiltering ==
    pc # "build" => \A f \in AllFormulas : \A cl \in f : ~IsTautology(cl)

\* the solver works on a reduced formula after a tautological clause was
\* handed to Formula.of with other clauses
TautologyFilteringWitness ==
    /\ pc = "run"
    /\ \E cl \in input : IsTautology(cl)
    /\ Len(stack) > 0
    /\ Top.current_formula # {}
    /\ Top.current_formula # F

\* n occurs with sign neg in an undecided literal of a clause of f that is
\* not true under a
OccursUndecided(f, a, n, neg) ==
    \E cl \in f :
        /\ \A lit \in cl : lit.name \in DOMAIN a => a[lit.name] = lit.negated
        /\ Literal(n, neg) \in cl
        /\ n \notin DOMAIN a

\* C7 (pure-literal elimination): the pure-literal step binds every variable
\* that occurs only non-negated to True and every variable that occurs only
\* negated to False, removes all of them from the formula in the same step,
\* and ends in a contradiction only if the formula held an empty clause.
PureLiteralElimination ==
    [][Running("pure") =>
        LET f == Top.current_formula
            r == Top.current_assignment
            a == heap[r]
            pos == {n \in Names : OccursUndecided(f, a, n, FALSE) /\ ~OccursUndecided(f, a, n, TRUE)}
            neg == {n \in Names : OccursUndecided(f, a, n, TRUE) /\ ~OccursUndecided(f, a, n, FALSE)}
        IN  /\ \A n \in pos : n \in DOMAIN heap'[r] /\ heap'[r][n] = TRUE
            /\ \A n \in neg : n \in DOMAIN heap'[r] /\ heap'[r][n] = FALSE
            /\ DOMAIN heap'[r] = (DOMAIN a) \cup pos \cup neg
            /\ Len(stack') = Len(stack) =>
                  Variables(stack'[Len(stack')].current_formula) \cap (pos \cup neg) = {}
            /\ Len(stack') < Len(stack) => {} \in f
    ]_vars

\* the pure-literal step has bound A to True and B to False for (A or not B)
PureLiteralEliminationWitness ==
    /\ F = {{Literal(1, FALSE), Literal(2, TRUE)}}
    /\ Running("outer")
    /\ Top.changed
    /\ Top.current_formula = {}
    /\ heap[Top.current_assignment] = DictSet(Singleton(1, TRUE), 2, FALSE)

\* C8 (backtracking isolation): no step changes the formula or the mapping a
\* dpll call on the stack was given, nor, once the call is branching, its
\* simplified formula and assignment; each recursive call is given the
\* caller's simplified formula reduced under the one new binding and a new
\* dict holding the simplified assignment plus that binding, True first.
BacktrackingIsolation ==
    [][/\ \A i \in 1..Len(stack) : i <= Len(stack') =>
            /\ stack'[i].formula = stack[i].formula
            /\ stack'[i].assignment = stack[i].assignment
            /\ heap'[stack[i].assignment] = heap[stack[i].assignment]
            /\ stack[i].pc \in {"branch", "await"} =>
                  /\ stack'[i].current_formula = stack[i].current_formula
                  /\ stack'[i].current_assignment = stack[i].current_assignment
                  /\ stack'[i].var = stack[i].var
                  /\ heap'[stack[i].current_assignment] = heap[stack[i].current_assignment]
       /\ (Len(stack) > 0 /\ Len(stack') = Len(stack) + 1) =>
            LET p == stack[Len(stack)]
                c == stack'[Len(stack')]
                choice == Len(p.choices) = 2
            IN  /\ p.choices \in {<<TRUE, FALSE>>, <<FALSE>>}
                /\ c.assignment \notin {stack[i].assignment : i \in 1..Len(stack)}
                /\ c.assignment \notin {stack[i].current_assignment : i \in 1..Len(stack)}
                /\ heap'[c.assignment] = DictSet(heap[p.current_assignment], p.var, choice)
                /\ c.formula = FormulaReduce(p.current_formula, Singleton(p.var, choice)).formula
    ]_vars

\* the True branch has failed and the False branch is running on the
\* simplified assignment plus var = False
BacktrackingIsolationWitness ==
    /\ pc = "run"
    /\ Len(stack) = 2
    /\ stack[1].pc = "await"
    /\ stack[1].choices = <<>>
    /\ ret.none
    /\ stack[2].pc = "evaluate"
    /\ heap[stack[2].assignment] = DictSet(heap[stack[1].current_assignment], stack[1].var, FALSE)

\* C9 (shrinking recursion): each recursive dpll call is given a formula whose
\* variables are a strict subset of those its caller was given, so at most as
\* many recursive calls are nested as the formula has variables; the chosen
\* branching variable is unbound and occurs in the simplified formula, and
\* the fallback never finds its set empty.
ShrinkingRecursion ==
    /\ error # "StopIteration"
    /\ \A i \in 2..Len(stack) :
          /\ Variables(stack[i].formula) \subseteq Variables(stack[i - 1].formula)
          /\ Variables(stack[i].formula) # Variables(stack[i - 1].formula)
    /\ Len(stack) <= Cardinality(Variables(F)) + 1
    /\ \A i \in 1..Len(stack) : stack[i].pc \in {"branch", "await"} =>
          /\ stack[i].var \notin DOMAIN heap[stack[i].current_assignment]
          /\ stack[i].var \in Variables(stack[i].current_formula)

\* a recursive dpll call is running
ShrinkingRecursionWitness ==
    /\ pc = "run"
    /\ Len(stack) = 2
    /\ stack[2].pc = "evaluate"
    /\ stack[1].var \in Variables(stack[1].formula)

\* C10 (unit-propagation assertion): every clause still to be processed of
\* the set of unit clauses has exactly one undecided literal under the
\* current assignment, the assertion never fails, and no bound variable
\* occurs in the formula simplify works on, so none is bound a second time.
UnitAssertionValid ==
    /\ error # "AssertionError"
    /\ Running("foreach") =>
          \A cl \in Top.units :
              Cardinality({lit \in cl : lit.name \notin DOMAIN heap[Top.current_assignment]}) = 1
    /\ \A i \in 1..Len(stack) : stack[i].pc # "simplify" =>
          Variables(stack[i].current_formula) \cap DOMAIN heap[stack[i].current_assignment] = {}

\* of the unit clauses (A) and (B) found in one scan, (A) has been propagated
\* and (B) is still to be processed
UnitAssertionValidWitness ==
    /\ F = {{Literal(1, FALSE)}, {Literal(2, FALSE)}}
    /\ Running("foreach")
    /\ Top.units = {{Literal(2, FALSE)}}
    /\ heap[Top.current_assignment] = Singleton(1, TRUE)

====
